---- MODULE Spec2Model ----
(***************************************************************************)
(* Model of lib/extras/metrics.cc: the p-norm pooling of a difference map  *)
(* (ComputeDistanceP), the weighted sum of squares (ComputeSumOfSquares),  *)
(* ComputePSNR, and the ButteraugliDistance / Butteraugli3Norm facade.     *)
(*                                                                         *)
(* Floating-point values are modelled as records [k, v]: k = "fin" with an *)
(* exact integer v, and k = "nan" (any non-finite result of inf - inf or   *)
(* of a NaN operand). Samples and their differences are whole numbers; the *)
(* float yuvmatrix and yuvdiff are whole multiples of 2^-27, rounded to    *)
(* the 24-bit significand of float after every operation. A double sum of  *)
(* squares is kept as the sequence of the non-zero |yuvdiff| whose float   *)
(* squares were added to it, in order. Results that need sqrt, log10 or    *)
(* pow are kept as the exact arguments those functions are applied to.     *)
(***************************************************************************)
EXTENDS Integers, Sequences, FiniteSets, TLC

VARIABLES
  a, b,          \* the two PackedPixelFile arguments
  env,           \* what the collaborators and the build do in this run
  pc,            \* position of the calling program
  score,         \* the caller's float& score
  distmap,       \* the caller's ImageF* distmap target
  res,           \* what the last facade call returned
  psnr_ab,       \* outcome of ComputePSNR(a, b)
  psnr_ba,       \* outcome of ComputePSNR(b, a)
  dmap,          \* the ImageF handed to ComputeDistanceP
  p,             \* the exponent handed to ComputeDistanceP, in units of 1e-7
  lanes,         \* Lanes(d) of the build target
  pool,          \* outcome of ComputeDistanceP(dmap, params, p)
  once,          \* static std::atomic<int> once
  warnings,      \* number of "using slow ComputeDistanceP" lines emitted
  tpc,           \* per thread: position inside the generic path
  told,          \* per thread: the value its fetch_add returned
  tcalls         \* per thread: generic-path calls started

vars == <<a, b, env, pc, score, distmap, res, psnr_ab, psnr_ba,
          dmap, p, lanes, pool, once, warnings, tpc, told, tcalls>>

\* ------------------------------------------------------------------ bounds

MaxX == 2          \* image widths 0..MaxX
MaxY == 1          \* image heights 0..MaxY
MaxW == 5          \* difference-map widths 0..MaxW
MaxH == 2          \* difference-map heights 0..MaxH
MaxD == 2          \* difference-map values 0..MaxD
MaxLanes == 4      \* vector lane counts 1..MaxLanes
NThreads == 2      \* threads calling ComputeDistanceP
MaxCalls == 2      \* generic-path calls per thread

\* ------------------------------------------------------------------ floats

Fin(n) == [k |-> "fin", v |-> n]
NaN == [k |-> "nan", v |-> 0]

Abs(n) == IF n < 0 THEN -n ELSE n

\* The spacing of the floats around a magnitude m: 1 below 2^24, doubling
\* with every further bit.
RECURSIVE Ulp(_)
Ulp(m) == IF m < 16777216 THEN 1 ELSE 2 * Ulp(m \div 2)

\* Rounding of an exact value to float: to the nearest, ties to even.
RoundF(n) ==
  LET m == Abs(n)
      u == Ulp(m)
      q == m \div u
      r == m % u
      q1 == IF 2 * r > u \/ (2 * r = u /\ q % 2 = 1) THEN q + 1 ELSE q
  IN  IF n < 0 THEN -(q1 * u) ELSE q1 * u

\* float - float on whole samples (exact)
FSub(x, y) == IF x.k = "fin" /\ y.k = "fin" THEN Fin(x.v - y.v) ELSE NaN
\* whole factor * sample (exact)
FScale(c, x) == IF x.k = "fin" THEN Fin(c * x.v) ELSE NaN

\* acc += m * c in float, m and acc in units of 2^-27, c a whole number:
\* the product is rounded before the sum unless the build contracts the
\* expression into one fused multiply-add.
MulAdd(acc, m, c, contract) ==
  IF acc.k # "fin" \/ c.k # "fin" THEN NaN
  ELSE IF contract THEN Fin(RoundF(acc.v + m * c.v))
  ELSE Fin(RoundF(acc.v + RoundF(m * c.v)))

\* A double sum of squares: the non-zero |yuvdiff| added so far ("sum"),
\* NaN, or std::numeric_limits<double>::max().
SumOf(terms) == [k |-> "sum", sq |-> terms]
NaNSum == [k |-> "nan", sq |-> << >>]
DblMax == [k |-> "max", sq |-> << >>]

\* sum == 0
IsZero(x) == x = SumOf(<< >>)

\* sum += d * d (the float square of d, widened to double)
AddSquare(sum, d) ==
  IF sum.k # "sum" \/ d.k # "fin" THEN NaNSum
  ELSE IF d.v = 0 THEN sum
  ELSE SumOf(Append(sum.sq, Abs(d.v)))

\* ------------------------------------------------------------------ inputs

Faults == {"none", "convert", "encoding", "transform"}
Patterns == {"zeros", "ramp", "nan"}

\* A PackedPixelFile: its size, info.num_color_channels, its colour encoding,
\* the step of the pipeline its content makes fail, and its sample pattern.
\* Fields that cannot be observed are fixed (no pixels: no pattern; a file
\* that fails before its encoding is compared: encoding "sRGB").
Images ==
  { i \in [xsize : 0..MaxX, ysize : 0..MaxY, num_color_channels : {1, 3},
           fault : Faults, enc : {"sRGB", "Linear"}, pat : Patterns] :
      /\ (i.xsize * i.ysize = 0 => i.pat = "zeros")
      /\ (i.fault \in {"convert", "encoding"} => i.enc = "sRGB" /\ i.pat = "zeros")
      /\ (i.fault = "transform" => i.pat = "zeros") }

\* Sample c (0..2) of pixel n (row-major, from 0) of the planar image that
\* ConvertPackedPixelFileToImage3F makes of img; a gray file fills the three
\* planes alike.
Sample(img, c, n) ==
  CASE img.pat = "zeros" -> Fin(0)
    [] img.pat = "ramp" ->
         IF img.num_color_channels = 1 THEN Fin((n + 1) % 3)
         ELSE Fin((n + c + 1) % 3)
    [] OTHER -> IF n = 0 THEN NaN ELSE Fin(0)

\* ApplyColorTransform on one sample (an external transform: any fixed map
\* that is not the identity).
TransformSample(x) == FScale(2, x)

ColorEncodingOf(img) == <<img.enc, img.num_color_channels = 1>>
SRGB(is_gray) == <<"sRGB", is_gray>>
LinearSRGB(is_gray) == <<"Linear", is_gray>>

\* ------------------------------------------------------ ComputeSumOfSquares

SentinelSums == <<DblMax, DblMax, DblMax>>
ZeroSums == <<SumOf(<< >>), SumOf(<< >>), SumOf(<< >>)>>

\* float yuvmatrix[3][3]: the floats nearest to 0.299, 0.587, 0.114,
\* -0.14713, -0.28886, 0.436, 0.615, -0.51499, -0.10001, in units of 2^-27
yuvmatrix ==
  << <<40131100, 78785808, 15300821>>,
     <<-19747454, -38770132, 58518928>>,
     <<82543904, -69120784, -13423115>> >>

Step(name, ok) == [name |-> name, ok |-> ok]

\* The fallible steps of normalising a and b to c_desired, in program order.
NormalizeSteps(x, y, c_desired, fail) ==
  << Step("Create_a", fail # "alloc_a"),
     Step("Convert_a", x.fault # "convert"),
     Step("Create_b", fail # "alloc_b"),
     Step("Convert_b", y.fault # "convert"),
     Step("GetColorEncoding_a", x.fault # "encoding"),
     Step("GetColorEncoding_b", y.fault # "encoding") >>
  \o (IF ColorEncodingOf(x) # c_desired
      THEN << Step("ApplyColorTransform_a", x.fault # "transform") >> ELSE << >>)
  \o (IF ColorEncodingOf(y) # c_desired
      THEN << Step("ApplyColorTransform_b", y.fault # "transform") >> ELSE << >>)

\* Index of the first failing step, 0 when every step succeeds.
FirstFailure(steps) ==
  IF \E n \in 1..Len(steps) : ~steps[n].ok
  THEN CHOOSE n \in 1..Len(steps) :
         ~steps[n].ok /\ \A m \in 1..(n - 1) : steps[m].ok
  ELSE 0

\* The steps actually executed: up to and including the first failure.
Executed(steps) ==
  LET f == FirstFailure(steps)
  IN  [n \in 1..(IF f = 0 THEN Len(steps) ELSE f) |-> steps[n].name]

\* The sample of the planar image after normalisation to c_desired.
Normalized(img, c_desired, c, n) ==
  IF ColorEncodingOf(img) # c_desired
  THEN TransformSample(Sample(img, c, n))
  ELSE Sample(img, c, n)

cdiff(x, y, c_desired, k, n) ==
  FSub(Normalized(x, c_desired, k, n), Normalized(y, c_desired, k, n))

\* yuvdiff[j] of pixel n, in units of 2^-27
yuvdiff(x, y, c_desired, j, n, contract) ==
  MulAdd(MulAdd(MulAdd(Fin(0), yuvmatrix[j][1],
                       cdiff(x, y, c_desired, 0, n), contract),
                yuvmatrix[j][2], cdiff(x, y, c_desired, 1, n), contract),
         yuvmatrix[j][3], cdiff(x, y, c_desired, 2, n), contract)

\* sum_of_squares[j] after the first n pixels of the xsize*ysize loop.
RECURSIVE SumSq(_, _, _, _, _, _)
SumSq(x, y, c_desired, j, n, contract) ==
  IF n = 0 THEN SumOf(<< >>)
  ELSE AddSquare(SumSq(x, y, c_desired, j, n - 1, contract),
                 yuvdiff(x, y, c_desired, j, n - 1, contract))

\* What the sums hold when a fallible step fails and the function returns.
SumsAtFailure_Mutant == ZeroSums
SumsAtFailure == SentinelSums

\* fail: the allocation that fails, if any; contract: whether the build
\* fuses the multiply-add of yuvdiff.
ComputeSumOfSquares(x, y, fail, contract) ==
  LET is_gray == x.num_color_channels = 1
      c_desired == SRGB(is_gray)
      steps == NormalizeSteps(x, y, c_desired, fail)
      pixels == x.xsize * x.ysize
  IN  IF FirstFailure(steps) # 0
      THEN [ok |-> FALSE, sums |-> SumsAtFailure, calls |-> Executed(steps)]
      ELSE [ok |-> TRUE,
            sums |-> [j \in 1..3 |->
                       SumSq(x, y, c_desired, j, pixels, contract)],
            calls |-> Executed(steps) \o <<"Reset", "Accumulate">>]

\* -------------------------------------------------------------- ComputePSNR

\* A double that ComputePSNR returns: an exact value in hundredths ("centi"),
\* NaN, or the weighted average of three channel terms it is computed from.
Centi(n) == [k |-> "centi", centi |-> n, terms |-> << >>]
NaNResult == [k |-> "nan", centi |-> 0, terms |-> << >>]

SizesDiffer_Mutant(x, y) == x.xsize # y.xsize
SizesDiffer(x, y) == x.xsize # y.xsize \/ x.ysize # y.ysize

ChannelsDiffer_Mutant(x, y) == FALSE
ChannelsDiffer(x, y) == x.num_color_channels # y.num_color_channels

\* kChannelWeights, in eighths
kChannelWeights == <<6, 1, 1>>

\* psnr of one channel: the ceiling 99.99 when the sum is 0, otherwise
\* 20 * log10(1 / sqrt(num / den)), kept as its arguments (num: the sum).
ChannelPsnr_Mutant(sum, input_pixels) ==
  IF sum.k = "nan" THEN [k |-> "nan", num |-> << >>, den |-> 0]
  ELSE [k |-> "log", num |-> sum.sq, den |-> input_pixels]
ChannelPsnr(sum, input_pixels) ==
  IF IsZero(sum) THEN [k |-> "ceil", num |-> << >>, den |-> 0]
  ELSE IF sum.k = "nan" THEN [k |-> "nan", num |-> << >>, den |-> 0]
  ELSE [k |-> "log", num |-> sum.sq, den |-> input_pixels]

\* avg_psnr = sum of kChannelWeights[i] * psnr_i
WeightedAverage(terms) ==
  IF \E i \in 1..3 : terms[i].k = "nan" THEN NaNResult
  ELSE IF \A i \in 1..3 : terms[i].k = "ceil"
  THEN Centi((kChannelWeights[1] * 9999 + kChannelWeights[2] * 9999
              + kChannelWeights[3] * 9999) \div 8)
  ELSE [k |-> "avg", centi |-> 0, terms |-> terms]

NoSumOfSquares == [ok |-> FALSE, sums |-> ZeroSums, calls |-> << >>]

ComputePSNR(x, y, fail, contract) ==
  IF SizesDiffer(x, y)
  THEN [val |-> Centi(0), diag |-> "Images must have the same size for PSNR.",
        sos_called |-> FALSE, sos |-> NoSumOfSquares]
  ELSE IF ChannelsDiffer(x, y)
  THEN [val |-> Centi(0), diag |-> "Grayscale vs RGB comparison not supported.",
        sos_called |-> FALSE, sos |-> NoSumOfSquares]
  ELSE LET sos == ComputeSumOfSquares(x, y, fail, contract)
           input_pixels == x.xsize * x.ysize
       IN  IF ~sos.ok
           THEN [val |-> Centi(0), diag |-> "ComputeSumOfSquares failed.",
                 sos_called |-> TRUE, sos |-> sos]
           ELSE [val |-> WeightedAverage(
                           [i \in 1..3 |-> ChannelPsnr(sos.sums[i], input_pixels)]),
                 diag |-> "", sos_called |-> TRUE, sos |-> sos]

\* --------------------------------------------------------- ComputeDistanceP

\* One unit of the exponent p: p is held in units of 1e-7.
PUnit == 10 ^ 7

\* std::abs(p - 3.0) < 1E-6
NearThree(pe) ==
  LET d == pe - 3 * PUnit IN (IF d < 0 THEN -d ELSE d) < 10

\* distmap.ConstRow(y)[x]: the maps are filled row-major with a ramp that
\* starts at the map's seed.
Row(dm, y, x) == (x + y * dm.xsize + dm.seed) % (MaxD + 1)

RECURSIVE IntPow(_, _)
IntPow(d, n) == IF n = 0 THEN 1 ELSE d * IntPow(d, n - 1)

RECURSIVE SumOver(_, _, _)
\* sum of f[i] for i in lo..hi
SumOver(f, lo, hi) == IF hi < lo THEN 0 ELSE f[hi] + SumOver(f, lo, hi - 1)

\* The squaring chain of one pixel: t, t*t, (t*t)*(t*t) for i = 1, 2, 3.
Chain(t, i) == IF i = 1 THEN t ELSE IF i = 2 THEN t * t ELSE (t * t) * (t * t)

\* The x at which the body of the vector loop runs in one row:
\* for (x = 0; x + Lanes(d) <= xsize; x += Lanes(d))
RECURSIVE VectorLoop(_, _, _)
VectorLoop(x, xsize, L) ==
  IF x + L <= xsize THEN <<x>> \o VectorLoop(x + L, xsize, L) ELSE << >>

\* The x the scalar loop starts from: the x the vector loop stopped at.
TailStart_Mutant(xsize, L) == 0
TailStart(xsize, L) == Len(VectorLoop(0, xsize, L)) * L

\* The pixels read in program order: per row the vector loads, lane by
\* lane, then the scalar tail.
RowReads(dm, y, L) ==
  LET starts == VectorLoop(0, dm.xsize, L)
      vec == [n \in 1..(Len(starts) * L) |->
                <<starts[((n - 1) \div L) + 1] + ((n - 1) % L), y>>]
      t0 == TailStart(dm.xsize, L)
      tail == [n \in 1..(IF dm.xsize > t0 THEN dm.xsize - t0 ELSE 0) |->
                 <<t0 + n - 1, y>>]
  IN  vec \o tail

RECURSIVE Reads(_, _, _)
Reads(dm, rows, L) ==
  IF rows = 0 THEN << >> ELSE Reads(dm, rows - 1, L) \o RowReads(dm, rows - 1, L)

\* sum_totals<i>[l] after the last row: lane l of every vector iteration.
LaneTotal(dm, i, l, L) ==
  LET starts == VectorLoop(0, dm.xsize, L)
      row == [y \in 0..(dm.ysize - 1) |->
                SumOver([k \in 1..Len(starts) |->
                           LET d1 == Row(dm, y, starts[k] + l)
                           IN  Chain(d1 * (d1 * d1), i)],
                        1, Len(starts))]
  IN  SumOver(row, 0, dm.ysize - 1)

\* sum1[i] after the last row: the scalar tails.
ScalarTotal(dm, i, L) ==
  LET t0 == TailStart(dm.xsize, L)
      row == [y \in 0..(dm.ysize - 1) |->
                SumOver([x \in t0..(dm.xsize - 1) |->
                           LET d1 == Row(dm, y, x)
                           IN  Chain(d1 * d1 * d1, i)],
                        t0, dm.xsize - 1)]
  IN  SumOver(row, 0, dm.ysize - 1)

\* sum1[i] + GetLane(SumOfLanes(d, Load(d, sum_totals<i>)))
FastTotals(dm, L) ==
  [i \in 1..3 |->
     ScalarTotal(dm, i, L)
     + SumOver([l \in 0..(L - 1) |-> LaneTotal(dm, i, l, L)], 0, L - 1)]

\* sum1[i] of the generic path; std::pow(row[x], p) for a whole exponent.
GenericTotals(dm, pe) ==
  [i \in 1..3 |->
     SumOver([y \in 0..(dm.ysize - 1) |->
                SumOver([x \in 0..(dm.xsize - 1) |->
                           Chain(IntPow(Row(dm, y, x), pe \div PUnit), i)],
                        0, dm.xsize - 1)],
             0, dm.ysize - 1)]

EmptyMapCheck_Mutant(dm) == dm.xsize = 0
EmptyMapCheck(dm) == dm.xsize = 0 \/ dm.ysize = 0

\* The returned StatusOr<double>. zero: the literal 0.0 of the early return.
\* Otherwise the value is ((S1/n)^(1/p) + (S2/n)^(1/2p) + (S4/n)^(1/4p)) / 3,
\* kept as S1, S2, S4 (sums), n and p. used: what the call touched.
ComputeDistanceP(dm, pe, L, alloc_ok) ==
  IF EmptyMapCheck(dm)
  THEN [ok |-> TRUE, zero |-> TRUE, sums |-> <<0, 0, 0>>, n |-> 0, p |-> pe,
        path |-> "empty", used |-> {}, reads |-> << >>]
  ELSE IF ~dm.mm
  THEN [ok |-> FALSE, zero |-> FALSE, sums |-> <<0, 0, 0>>, n |-> 0, p |-> pe,
        path |-> "ensure", used |-> {"memory_manager"}, reads |-> << >>]
  ELSE IF NearThree(pe)
  THEN IF ~alloc_ok
       THEN [ok |-> FALSE, zero |-> FALSE, sums |-> <<0, 0, 0>>, n |-> 0,
             p |-> pe, path |-> "fast",
             used |-> {"memory_manager", "AlignedMemory"}, reads |-> << >>]
       ELSE [ok |-> TRUE, zero |-> FALSE, sums |-> FastTotals(dm, L),
             n |-> dm.ysize * dm.xsize, p |-> pe, path |-> "fast",
             used |-> {"memory_manager", "AlignedMemory"},
             reads |-> Reads(dm, dm.ysize, L)]
  ELSE [ok |-> TRUE, zero |-> FALSE, sums |-> GenericTotals(dm, pe),
        n |-> dm.ysize * dm.xsize, p |-> pe, path |-> "generic",
        used |-> {"memory_manager", "once"}, reads |-> << >>]

\* once.fetch_add(1, std::memory_order_relaxed) on a 32-bit int: the new
\* value of the counter.
FetchAdd(n) == IF n = 2147483647 THEN -2147483647 - 1 ELSE n + 1

\* ------------------------------------------------------ ButteraugliDistance

\* A float score: the caller's initial value ("init"), FLT_MAX ("max"), or
\* ButteraugliScoreFromDiffmap of a difference map ("map").
ScoreFromDiffmap(dm) == [k |-> "map", of |-> dm]
FltMax == [k |-> "max", of |-> [xsize |-> 0, ysize |-> 0, mm |-> FALSE, seed |-> 0]]

\* ImageF::Create(memory_manager, ref.xsize(), ref.ysize()) filled by
\* comparator->Diffmap: the Comparator's output is chosen by the run (seed).
DiffmapOf(ref, seed) ==
  [xsize |-> ref.xsize, ysize |-> ref.ysize, mm |-> TRUE, seed |-> seed]

ComparatorSteps(fail) ==
  << Step("ButteraugliComparator::Make", fail # "make"),
     Step("ImageF::Create", fail # "alloc_dm"),
     Step("Diffmap", fail # "diffmap") >>

\* The bug of writing score before the status of Diffmap is checked.
ComputeButteraugli_Mutant(ref, e, score_in, distmap_in, want_map) ==
  LET steps == ComparatorSteps(e.fail)
      temp_distmap == DiffmapOf(ref, e.seed)
  IN  IF FirstFailure(steps) # 0
      THEN [ok |-> FALSE,
            score |-> IF FirstFailure(steps) = 3
                      THEN ScoreFromDiffmap(temp_distmap) ELSE score_in,
            distmap |-> distmap_in, calls |-> Executed(steps)]
      ELSE [ok |-> TRUE, score |-> ScoreFromDiffmap(temp_distmap),
            distmap |-> IF want_map THEN temp_distmap ELSE distmap_in,
            calls |-> Executed(steps)]

\* score_in, distmap_in: the caller's outputs before the call; want_map:
\* distmap != nullptr.
ComputeButteraugli(ref, e, score_in, distmap_in, want_map) ==
  LET steps == ComparatorSteps(e.fail)
      temp_distmap == DiffmapOf(ref, e.seed)
  IN  IF FirstFailure(steps) # 0
      THEN [ok |-> FALSE, score |-> score_in, distmap |-> distmap_in,
            calls |-> Executed(steps)]
      ELSE [ok |-> TRUE, score |-> ScoreFromDiffmap(temp_distmap),
            distmap |-> IF want_map THEN temp_distmap ELSE distmap_in,
            calls |-> Executed(steps)]

ButteraugliSizesDiffer_Mutant(x, y) == x.xsize # y.xsize
ButteraugliSizesDiffer(x, y) == x.xsize # y.xsize \/ x.ysize # y.ysize

ButteraugliChannelsDiffer(x, y) ==
  x.num_color_channels # y.num_color_channels

\* The Status overload.
ButteraugliDistance(x, y, e, score_in, distmap_in, want_map) ==
  IF ButteraugliSizesDiffer(x, y)
  THEN [ok |-> FALSE, score |-> score_in, distmap |-> distmap_in,
        calls |-> << >>,
        diag |-> "Images must have the same size for butteraugli."]
  ELSE IF ButteraugliChannelsDiffer(x, y)
  THEN [ok |-> FALSE, score |-> score_in, distmap |-> distmap_in,
        calls |-> << >>,
        diag |-> "Grayscale vs RGB comparison not supported."]
  ELSE LET is_gray == x.num_color_channels = 1
           c_desired == LinearSRGB(is_gray)
           steps == NormalizeSteps(x, y, c_desired, e.fail)
       IN  IF FirstFailure(steps) # 0
           THEN [ok |-> FALSE, score |-> score_in, distmap |-> distmap_in,
                 calls |-> Executed(steps), diag |-> "JXL_ENSURE"]
           ELSE LET cb == ComputeButteraugli(x, e, score_in, distmap_in,
                                             want_map)
                IN  [ok |-> cb.ok, score |-> cb.score, distmap |-> cb.distmap,
                     calls |-> Executed(steps) \o cb.calls,
                     diag |-> IF cb.ok THEN "" ELSE "ComputeButteraugli"]

\* The float overload: FLT_MAX when the Status overload fails.
ButteraugliDistanceOrMax(x, y, e, distmap_in, want_map) ==
  LET r == ButteraugliDistance(x, y, e, FltMax, distmap_in, want_map)
  IN  IF ~r.ok
      THEN [val |-> FltMax, distmap |-> r.distmap, strict |-> r,
            diag |-> "ButteraugliDistance failed."]
      ELSE [val |-> r.score, distmap |-> r.distmap, strict |-> r, diag |-> ""]

\* ImageF distmap; (default-constructed: no size, no memory manager)
DefaultImageF == [xsize |-> 0, ysize |-> 0, mm |-> FALSE, seed |-> 0]

Butteraugli3Norm(x, y, e, L) ==
  LET d == ButteraugliDistanceOrMax(x, y, e, DefaultImageF, TRUE)
  IN  [dist |-> d,
       val |-> ComputeDistanceP(d.distmap, 3 * PUnit, L, e.fail # "alloc_sums")]

\* ------------------------------------------------- state not used by a run

NoImage == [xsize |-> 0, ysize |-> 0, num_color_channels |-> 1,
            fault |-> "none", enc |-> "sRGB", pat |-> "zeros"]
NoCall == [val |-> Centi(0), diag |-> "", sos_called |-> FALSE,
           sos |-> NoSumOfSquares]
EmptyMap == [xsize |-> 0, ysize |-> 0, mm |-> FALSE, seed |-> 0]
InitScore == [k |-> "init", of |-> EmptyMap]
NoResult == [op |-> "none"]
NoPool == [ok |-> FALSE, zero |-> FALSE, sums |-> <<0, 0, 0>>, n |-> 0,
           p |-> 0, path |-> "none", used |-> {}, reads |-> << >>]

FacadeIdle ==
  /\ score = InitScore /\ distmap = EmptyMap /\ res = NoResult
PsnrIdle == psnr_ab = NoCall /\ psnr_ba = NoCall
PoolIdle == dmap = EmptyMap /\ p = 0 /\ lanes = 1 /\ pool = NoPool
OnceIdle ==
  /\ once = 0 /\ warnings = 0
  /\ tpc = << >> /\ told = << >> /\ tcalls = << >>

facadeVars == <<score, distmap, res>>
psnrVars == <<psnr_ab, psnr_ba>>
poolVars == <<dmap, p, lanes, pool>>
onceVars == <<once, warnings, tpc, told, tcalls>>

\* ------------------------------------------------------ PSNR of a pair

AllocFaults == {"none", "alloc_a", "alloc_b"}

InitPsnr ==
  /\ a \in Images /\ b \in Images
  /\ env \in [fail : AllocFaults, seed : {0}, contract : BOOLEAN]
  /\ pc = "start"
  /\ PsnrIdle /\ FacadeIdle /\ PoolIdle /\ OnceIdle

PsnrForward ==
  /\ pc = "start"
  /\ psnr_ab' = ComputePSNR(a, b, env.fail, env.contract)
  /\ pc' = "ab"
  /\ UNCHANGED <<a, b, env, psnr_ba, facadeVars, poolVars, onceVars>>

PsnrReverse ==
  /\ pc = "ab"
  /\ psnr_ba' = ComputePSNR(b, a, env.fail, env.contract)
  /\ pc' = "done"
  /\ UNCHANGED <<a, b, env, psnr_ab, facadeVars, poolVars, onceVars>>

NextPsnr == PsnrForward \/ PsnrReverse

SpecPsnr == InitPsnr /\ [][NextPsnr]_vars

\* ------------------------------------------------- the distance facade

\* The Comparator is a black box for the files' content: one pattern is enough.
FacadeImages == {i \in Images : i.pat = "zeros"}

\* What fails in the run (nothing: the Comparator's map is drawn from seeds).
FacadeEnvs ==
  [fail : {"alloc_a", "alloc_b", "make", "alloc_dm", "diffmap", "alloc_sums"},
   seed : {0}]
  \cup [fail : {"none"}, seed : 0..MaxD]

\* What the caller's distmap holds before the call.
PriorMap == [xsize |-> 1, ysize |-> 1, mm |-> TRUE, seed |-> 1]

InitFacade ==
  /\ a \in FacadeImages /\ b \in FacadeImages
  /\ env \in FacadeEnvs
  /\ score = InitScore /\ distmap = PriorMap /\ res = NoResult
  /\ pc = "start"
  /\ PsnrIdle /\ PoolIdle /\ OnceIdle

facadeFrame == <<a, b, env, psnrVars, poolVars, onceVars>>

\* Status ButteraugliDistance(mm, a, b, params, score, distmap, pool)
StrictDistance ==
  /\ pc = "start"
  /\ \E want_map \in BOOLEAN :
       LET r == ButteraugliDistance(a, b, env, score, distmap, want_map)
       IN  /\ score' = r.score
           /\ distmap' = r.distmap
           /\ res' = [op |-> "strict", ok |-> r.ok, calls |-> r.calls,
                      diag |-> r.diag, want_map |-> want_map,
                      score_before |-> score, distmap_before |-> distmap]
  /\ pc' = "done"
  /\ UNCHANGED facadeFrame

\* float ButteraugliDistance(mm, a, b, params, distmap, pool)
LenientDistance ==
  /\ pc = "start"
  /\ \E want_map \in BOOLEAN :
       LET r == ButteraugliDistanceOrMax(a, b, env, distmap, want_map)
       IN  /\ distmap' = r.distmap
           /\ res' = [op |-> "lenient", ok |-> r.strict.ok, val |-> r.val,
                      calls |-> r.strict.calls, diag |-> r.diag,
                      want_map |-> want_map]
  /\ pc' = "done"
  /\ UNCHANGED <<score, facadeFrame>>

\* StatusOr<double> Butteraugli3Norm(mm, a, b, pool)
Norm3 ==
  /\ pc = "start"
  /\ LET r == Butteraugli3Norm(a, b, env, 1)
     IN  res' = [op |-> "norm3", ok |-> r.dist.strict.ok, val |-> r.val,
                 calls |-> r.dist.strict.calls, diag |-> r.dist.diag]
  /\ pc' = "done"
  /\ UNCHANGED <<score, distmap, facadeFrame>>

NextFacade == StrictDistance \/ LenientDistance \/ Norm3

SpecFacade == InitFacade /\ [][NextFacade]_vars

\* ------------------------------------------- ComputeDistanceP on one map

Maps == [xsize : 0..MaxW, ysize : 0..MaxH, mm : BOOLEAN, seed : 0..MaxD]

\* p = 2, 3 - 5e-7, 3, 3 + 5e-7, 4
Exponents == {2 * PUnit, 3 * PUnit - 5, 3 * PUnit, 3 * PUnit + 5, 4 * PUnit}

InitPool ==
  /\ dmap \in Maps /\ p \in Exponents /\ lanes \in 1..MaxLanes
  /\ env \in [fail : {"none", "alloc_sums"}, seed : {0}]
  /\ pool = NoPool
  /\ pc = "start"
  /\ a = NoImage /\ b = NoImage
  /\ FacadeIdle /\ PsnrIdle /\ OnceIdle

\* One call ComputeDistanceP(dmap, params, p); the generic path advances the
\* static counter and warns when it fetched 0.
DistanceP ==
  /\ pc \in {"start", "called"}
  /\ LET r == ComputeDistanceP(dmap, p, lanes, env.fail # "alloc_sums")
     IN  /\ pool' = r
         /\ IF r.path = "generic"
            THEN /\ once' = FetchAdd(once)
                 /\ warnings' = IF once = 0 THEN warnings + 1 ELSE warnings
            ELSE UNCHANGED <<once, warnings>>
  /\ pc' = IF pc = "start" THEN "called" ELSE "again"
  /\ UNCHANGED <<a, b, env, dmap, p, lanes, tpc, told, tcalls,
                 facadeVars, psnrVars>>

NextPool == DistanceP

SpecPool == InitPool /\ [][NextPool]_vars

\* ---------------------------------- the generic path from several threads

Threads == 1..NThreads

\* The counter at the start of the run: 0 in a fresh process, INT_MAX in a
\* process that has made 2^31 - 1 generic-path calls, -2 in one that has made
\* 2^32 - 2 of them (each of the two has warned once).
OnceStarts == {0, 2147483647, -2}

InitOnce ==
  /\ once \in OnceStarts
  /\ warnings = IF once = 0 THEN 0 ELSE 1
  /\ tpc = [t \in Threads |-> "idle"]
  /\ told = [t \in Threads |-> 0]
  /\ tcalls = [t \in Threads |-> 0]
  /\ pc = "threads"
  /\ env = [fail |-> "none", seed |-> 0]
  /\ a = NoImage /\ b = NoImage
  /\ FacadeIdle /\ PsnrIdle /\ PoolIdle

onceFrame == <<a, b, env, pc, facadeVars, psnrVars, poolVars>>

\* once.fetch_add(1, relaxed): one atomic step
FetchAddStep(t) ==
  /\ tpc[t] = "idle" /\ tcalls[t] < MaxCalls
  /\ told' = [told EXCEPT ![t] = once]
  /\ once' = FetchAdd(once)
  /\ tcalls' = [tcalls EXCEPT ![t] = @ + 1]
  /\ tpc' = [tpc EXCEPT ![t] = "fetched"]
  /\ UNCHANGED <<warnings, onceFrame>>

\* if (... == 0) JXL_WARNING("WARNING: using slow ComputeDistanceP")
Warn(t) ==
  /\ tpc[t] = "fetched" /\ told[t] = 0
  /\ warnings' = warnings + 1
  /\ tpc' = [tpc EXCEPT ![t] = "sum"]
  /\ UNCHANGED <<once, told, tcalls, onceFrame>>

NoWarn(t) ==
  /\ tpc[t] = "fetched" /\ told[t] # 0
  /\ tpc' = [tpc EXCEPT ![t] = "sum"]
  /\ UNCHANGED <<once, warnings, told, tcalls, onceFrame>>

\* the summation loops and the return
Return(t) ==
  /\ tpc[t] = "sum"
  /\ tpc' = [tpc EXCEPT ![t] = "idle"]
  /\ UNCHANGED <<once, warnings, told, tcalls, onceFrame>>

NextOnce ==
  \E t \in Threads : FetchAddStep(t) \/ Warn(t) \/ NoWarn(t) \/ Return(t)

SpecOnce == InitOnce /\ [][NextOnce]_vars

\* ------------------------------------------------------- claims on PSNR

\* The ComputePSNR calls made so far, each with its arguments in call order.
PsnrCalls ==
  (IF pc \in {"ab", "done"} THEN {<<a, b, psnr_ab>>} ELSE {})
  \cup (IF pc = "done" THEN {<<b, a, psnr_ba>>} ELSE {})

Mismatched(x, y) ==
  \/ x.xsize # y.xsize \/ x.ysize # y.ysize
  \/ x.num_color_channels # y.num_color_channels

\* C2: ComputePSNR returns 0.0 whenever its inputs differ in width, height or
\* channel count, without invoking ComputeSumOfSquares, and returns 0.0
\* whenever ComputeSumOfSquares reports failure.
C2_PsnrSentinel ==
  \A c \in PsnrCalls :
    /\ Mismatched(c[1], c[2]) => c[3].val = Centi(0) /\ ~c[3].sos_called
    /\ (c[3].sos_called /\ ~c[3].sos.ok) => c[3].val = Centi(0)

C2_Witness ==
  /\ pc = "done"
  /\ a.xsize = b.xsize /\ a.ysize # b.ysize
  /\ a.num_color_channels = b.num_color_channels
  /\ psnr_ab.val = Centi(0) /\ ~psnr_ab.sos_called

FallibleSteps ==
  {"Create_a", "Convert_a", "Create_b", "Convert_b", "GetColorEncoding_a",
   "GetColorEncoding_b", "ApplyColorTransform_a", "ApplyColorTransform_b"}

\* C3: at every error return of ComputeSumOfSquares the three sums hold the
\* sentinel and no reset or accumulation has run; on success the reset and
\* the accumulation come after every fallible step.
C3_SentinelOnError ==
  \A c \in PsnrCalls :
    c[3].sos_called =>
      LET r == c[3].sos
          n == Len(r.calls)
      IN  /\ ~r.ok =>
               /\ r.sums = SentinelSums
               /\ \A m \in 1..n : r.calls[m] \in FallibleSteps
          /\ r.ok =>
               /\ n >= 2 /\ r.calls[n - 1] = "Reset" /\ r.calls[n] = "Accumulate"
               /\ \A m \in 1..(n - 2) : r.calls[m] \in FallibleSteps
               /\ \A j \in 1..3 : r.sums[j] # DblMax

C3_Witness ==
  /\ pc = "done"
  /\ psnr_ab.sos_called /\ ~psnr_ab.sos.ok
  /\ psnr_ab.sos.calls[Len(psnr_ab.sos.calls)] = "ApplyColorTransform_b"
  /\ psnr_ab.sos.sums = SentinelSums

\* C7: ComputePSNR(a, b) equals ComputePSNR(b, a) for every pair, rejected
\* and failing pairs included.
C7_PsnrSymmetric ==
  pc = "done" => psnr_ab.val = psnr_ba.val

C7_Witness ==
  /\ pc = "done"
  /\ a # b
  /\ psnr_ab.val.k = "avg"
  /\ \E i \in 1..3 : psnr_ab.val.terms[i].k = "log"
  /\ psnr_ba.val = psnr_ab.val

\* Every sample that the accumulation loop of ComputeSumOfSquares(x, x) reads
\* is finite.
AllFinite(x) ==
  \A n \in 0..(x.xsize * x.ysize - 1) : \A c \in 0..2 :
    Normalized(x, SRGB(x.num_color_channels = 1), c, n).k = "fin"

\* C8 as stated: for every image a on which the conversion pipeline succeeds,
\* ComputePSNR(a, a) finds the three sums 0 and returns 99.99.
C8_SelfPsnrCeiling_Original ==
  (pc \in {"ab", "done"} /\ a = b /\ psnr_ab.sos_called /\ psnr_ab.sos.ok) =>
    /\ psnr_ab.sos.sums = ZeroSums
    /\ psnr_ab.val = Centi(9999)

\* C8 amended: for every image a of any size on which ComputeSumOfSquares
\* succeeds and whose normalised samples are all finite, ComputePSNR(a, a)
\* finds the three sums 0 and returns 99.99.
C8_SelfPsnrCeiling ==
  (pc \in {"ab", "done"} /\ a = b /\ psnr_ab.sos_called /\ psnr_ab.sos.ok
     /\ AllFinite(a)) =>
    /\ psnr_ab.sos.sums = ZeroSums
    /\ psnr_ab.val = Centi(9999)

C8_Witness ==
  /\ pc = "done" /\ a = b
  /\ a.xsize * a.ysize = 2 /\ a.pat = "ramp" /\ a.enc = "Linear"
  /\ psnr_ab.sos.ok
  /\ psnr_ab.val = Centi(9999)

\* -------------------------------------------- claims on ComputeDistanceP

PoolCalled == pc \in {"called", "again"}

\* C6: for a map whose width or height is 0, ComputeDistanceP returns success
\* with the value 0 for every exponent, touching neither params nor the
\* memory manager, and without advancing the once counter or warning.
C6_EmptyMapIsZero ==
  (PoolCalled /\ (dmap.xsize = 0 \/ dmap.ysize = 0)) =>
    /\ pool.ok /\ pool.zero
    /\ pool.used = {}
    /\ once = 0 /\ warnings = 0

C6_Witness ==
  /\ PoolCalled
  /\ dmap.xsize > 0 /\ dmap.ysize = 0 /\ ~dmap.mm
  /\ ~NearThree(p)
  /\ pool.ok /\ pool.zero

\* How many times the fast path read pixel (x, y).
ReadCount(x, y) ==
  Cardinality({n \in 1..Len(pool.reads) : pool.reads[n] = <<x, y>>})

\* C10: for every width, height and lane count, the vector loop and the
\* scalar tail of the fast path together read every pixel exactly once, and
\* the three combined totals equal the generic path's sums for p = 3.
C10_FastEqualsGeneric ==
  (PoolCalled /\ pool.path = "fast" /\ pool.ok) =>
    /\ \A x \in 0..(dmap.xsize - 1) : \A y \in 0..(dmap.ysize - 1) :
         ReadCount(x, y) = 1
    /\ Len(pool.reads) = dmap.xsize * dmap.ysize
    /\ pool.sums = GenericTotals(dmap, 3 * PUnit)

C10_Witness ==
  /\ PoolCalled /\ pool.path = "fast" /\ pool.ok
  /\ lanes > 1 /\ dmap.xsize > lanes /\ dmap.xsize % lanes # 0
  /\ dmap.ysize > 1
  /\ pool.sums[1] > 0
  /\ pool.sums = GenericTotals(dmap, 3 * PUnit)

\* C9: however many generic-path calls are made, from one thread or several,
\* the slow-path warning is emitted at most once in the life of the process.
C9_WarnedAtMostOnce == warnings <= 1

\* ------------------------------------------ claims on the distance facade

\* C1: when the widths, the heights or the channel counts differ, the Status
\* overload of ButteraugliDistance fails before any allocation, conversion,
\* encoding query, transform or Comparator call.
C1_MismatchFailsFirst ==
  (pc = "done" /\ res.op = "strict" /\ Mismatched(a, b)) =>
    /\ ~res.ok
    /\ res.calls = << >>

C1_Witness ==
  /\ pc = "done" /\ res.op = "strict"
  /\ a.xsize = b.xsize /\ a.ysize # b.ysize
  /\ a.num_color_channels = b.num_color_channels
  /\ a.fault = "none" /\ b.fault = "none" /\ env.fail = "none"
  /\ ~res.ok /\ res.calls = << >>

\* C4 as stated: when the Distance computation fails, Butteraugli3Norm
\* returns an error or the maximum value (no path of ComputeDistanceP
\* returns the maximum), never an ordinary successful score.
C4_Norm3KeepsFailure ==
  (pc = "done" /\ res.op = "norm3" /\ ~res.ok) =>
    \/ ~res.val.ok
    \/ res.val.path = "max"

\* C5: whenever the Status overload fails, score and distmap hold what they
\* held before the call; score is written and distmap swapped only once
\* Diffmap has succeeded.
C5_FailureKeepsOutputs ==
  (pc = "done" /\ res.op = "strict") =>
    /\ ~res.ok => score = res.score_before /\ distmap = res.distmap_before
    /\ (score # res.score_before \/ distmap # res.distmap_before) =>
         /\ res.ok
         /\ res.calls[Len(res.calls)] = "Diffmap"

C5_Witness ==
  /\ pc = "done" /\ res.op = "strict" /\ res.want_map
  /\ ~res.ok
  /\ Len(res.calls) > 0 /\ res.calls[Len(res.calls)] = "Diffmap"
  /\ score = InitScore /\ distmap = PriorMap

====
